---- MODULE Spec2Model ----
(***************************************************************************)
(* TaskManager PRO backend: the accounts, the JWT gate, the static        *)
(* role/permission table, the task CRUD routes with their role checks and  *)
(* the recurring-task generator, as a state machine over the database.     *)
(*                                                                         *)
(* Every route action models the whole request: the authenticateToken      *)
(* middleware mounted in index.ts and again in the router, the             *)
(* checkPermission middleware, the express-validator chain, and the        *)
(* handler with every database write and notification it makes.            *)
(***************************************************************************)
EXTENDS Integers, Sequences, FiniteSets, TLC

\* ------------------------------------------------------------- bounds
MaxUsers == 3
MaxEmails == 2
MaxTasks == 3
MaxAccessTasks == 2
MaxAccountTasks == 1
MaxRecurringRoots == 1
MaxNotifs == 2
MaxDate == 4
MaxSockets == 3
MaxAttempts == 20
MaxInflight == 2

\* ------------------------------------------------- identifiers and values
\* ObjectIds are allocated once and never reused: 1, 2, 3, ...
UserIds == 1..MaxUsers
TaskIds == 1..MaxTasks
Emails == 1..MaxEmails
Dates == 0..MaxDate
\* No id at all (an absent field, a request without a target).
NoId == 0
\* A string that is not a valid ObjectId (mongoose.Types.ObjectId.isValid is false).
BadId == -1
\* An absent date field.
NoDate == -1

Roles == {"admin", "manager", "user"}
NoRole == "none"

\* A user document of the users collection; NoUser where there is none.
NoUser == [role |-> NoRole, email |-> 0]

\* The bearer token of a request: absent, failing jwt.verify (forged, expired),
\* or verifying with payload {userId: uid}.
NoToken == [kind |-> "none", uid |-> NoId]
BadToken == [kind |-> "bad", uid |-> NoId]
TokenOf(u) == [kind |-> "ok", uid |-> u]

\* req.user as authenticateToken sets it; NoReqUser when it is not set.
NoReqUser == [id |-> NoId, role |-> NoRole]

\* socket.io connections are numbered as they are accepted and never reused.
SocketIds == 1..MaxSockets
\* connectedUsers.get(userId) === undefined
NoSocket == 0
\* A socket that has not been accepted yet; an accepted one carries
\* socket.data.user and is live until its 'disconnect' event.
NoSocketData == [user |-> NoId, live |-> FALSE]

\* The slots of PUT /tasks/:id requests that can be in flight at once.
Requests == 1..MaxInflight
\* No request in the slot.
NoRequest == [id |-> NoId]

\* The mongoose connection once the first attempt of connectWithRetry succeeded.
Established ==
    [state |-> "connected", up |-> TRUE, timers |-> 0,
     attempts |-> 1, failures |-> 0, scheduled |-> 0]

VARIABLES
    users,            \* users collection: UserIds -> user document or NoUser
    nextUserId,       \* the next fresh user ObjectId
    tasks,            \* tasks collection: TaskIds -> task document or NoTask
    nextTaskId,       \* the next fresh task ObjectId
    notifications,    \* notifications collection, oldest first
    rolePermissions,  \* the exported role -> permissions table of rbac
    res,              \* the request just served and its response
    sockets,          \* socket.io connections: SocketIds -> socket.data.user id, NoId when closed or not yet open
    connectedUsers,   \* the connectedUsers map: UserIds -> socket id or NoSocket
    emitted,          \* the 'notification' events emitted while serving the request
    connection,       \* connectWithRetry: the mongoose connection and its retry timer
    inflight          \* PUT /tasks/:id requests between their findById and their update

vars == <<users, nextUserId, tasks, nextTaskId, notifications, rolePermissions, res,
          sockets, connectedUsers, emitted, connection, inflight>>

\* ------------------------------------------------------------ rbac.ts
Permissions ==
    {"tasks:create", "tasks:read", "tasks:update", "tasks:delete", "tasks:assign",
     "tasks:read-all", "tasks:update-all", "tasks:delete-all",
     "users:read", "users:update", "users:create", "users:delete",
     "users:manage-roles", "reports:view", "reports:export", "system:settings"}

\* The table with the role management permission also given to managers.
RolePermissionsManagerManages ==
    [r \in Roles |->
        IF r = "user"
        THEN {"tasks:create", "tasks:read", "tasks:update", "tasks:delete", "tasks:assign"}
        ELSE {"tasks:create", "tasks:read", "tasks:update", "tasks:delete",
              "tasks:assign", "tasks:read-all", "tasks:update-all",
              "tasks:delete-all", "users:read", "users:update", "users:create",
              "users:delete", "users:manage-roles", "reports:view",
              "reports:export", "system:settings"}]

\* rolePermissions of rbac: admin, manager, user.
RolePermissionsTable ==
    [r \in Roles |->
        CASE r = "admin" ->
                {"tasks:create", "tasks:read", "tasks:update", "tasks:delete",
                 "tasks:assign", "tasks:read-all", "tasks:update-all",
                 "tasks:delete-all", "users:read", "users:update", "users:create",
                 "users:delete", "users:manage-roles", "reports:view",
                 "reports:export", "system:settings"}
          [] r = "manager" ->
                {"tasks:create", "tasks:read", "tasks:update", "tasks:delete",
                 "tasks:assign", "tasks:read-all", "tasks:update-all",
                 "tasks:delete-all", "users:read", "reports:view", "reports:export"}
          [] OTHER ->
                {"tasks:create", "tasks:read", "tasks:update", "tasks:delete",
                 "tasks:assign"}]

\* hasPermission with the missing-role guard dropped: a plausible slip.
hasPermissionNoGuard(user, permission) ==
    \/ user.role \notin DOMAIN rolePermissions
    \/ permission \in rolePermissions[user.role]

\* hasPermission(user, permission): false for no user, no role, or a role the
\* table has no entry for (permissions?.includes(...) || false).
hasPermission(user, permission) ==
    IF user = NoReqUser \/ user.role = NoRole
    THEN FALSE
    ELSE IF user.role \in DOMAIN rolePermissions
         THEN permission \in rolePermissions[user.role]
         ELSE FALSE

\* ------------------------------------------------------ middleware/auth
\* Tokens a client can hold: none, a bad one, or one issued by register/login
\* for an account created at some time (it may have been deleted since).
Tokens == {NoToken, BadToken} \cup {TokenOf(u) : u \in 1..(nextUserId - 1)}

\* authenticateToken that answers 403 also for a verified token of a deleted account.
authenticateTokenAll403(tok) ==
    IF tok.kind = "none" THEN [status |-> 401, user |-> NoReqUser]
    ELSE IF tok.kind = "bad" THEN [status |-> 403, user |-> NoReqUser]
    ELSE IF users[tok.uid] = NoUser THEN [status |-> 403, user |-> NoReqUser]
    ELSE [status |-> 0, user |-> [id |-> tok.uid, role |-> users[tok.uid].role]]

\* authenticateToken: status 0 stands for next(). It runs twice per request (the
\* mount in index.ts and router.use); within one request both runs read the same
\* database and decide alike.
authenticateToken(tok) ==
    IF tok.kind = "none" THEN [status |-> 401, user |-> NoReqUser]
    ELSE IF tok.kind = "bad" THEN [status |-> 403, user |-> NoReqUser]
    ELSE IF users[tok.uid] = NoUser THEN [status |-> 401, user |-> NoReqUser]
    ELSE [status |-> 0, user |-> [id |-> tok.uid, role |-> users[tok.uid].role]]

\* checkPermission(permission): 401 without req.user, 403 without the permission,
\* 0 for next().
checkPermission(user, permission) ==
    IF user = NoReqUser THEN 401
    ELSE IF ~hasPermission(user, permission) THEN 403
    ELSE 0

\* ----------------------------------------------------------- responses
\* What the served request was and what it answered. ran: the route's handler
\* chain was entered (authenticateToken called next()); valid: the request
\* passes the route's express-validator chain (TRUE where there is none); out:
\* the ids of the documents in the response body.
Response(op, tok, user, ran, status, target, out) ==
    [op |-> op, tok |-> tok, user |-> user, ran |-> ran, valid |-> TRUE,
     status |-> status, target |-> target, out |-> out]

\* The response to a request whose body the validator chain judges.
Validated(valid, response) == [response EXCEPT !.valid = valid]

NoResponse == Response("none", NoToken, NoReqUser, FALSE, 0, NoId, {})

Rejected(op, tok, status, target) ==
    Response(op, tok, NoReqUser, FALSE, status, target, {})

\* The server is between requests: the last response has been sent.
Idle == res = NoResponse

ExistingUsers == {u \in UserIds : users[u] # NoUser}
\* The lookup that finds no account, whatever the email.
EmailInUseNever(e) == FALSE

EmailInUse(e) == \E u \in UserIds : users[u] # NoUser /\ users[u].email = e

\* ------------------------------------------------------ documents
Statuses == {"todo", "in-progress", "completed"}
RecurringTypes == {"daily", "weekly", "monthly", "custom"}
\* An undefined string field of a document or of a request body.
Undefined == "undefined"

\* A task document; NoTask where the collection has none under that id.
\* parentTaskId is NoId on a task that is no instance of a recurring task.
NoTask ==
    [createdBy |-> NoId, assignedTo |-> NoId, status |-> Undefined,
     priority |-> Undefined, dueDate |-> NoDate, isRecurring |-> FALSE,
     recurringType |-> Undefined, recurringInterval |-> 0,
     recurringEndDate |-> NoDate, parentTaskId |-> NoId]

ExistingTasks == {t \in TaskIds : tasks[t] # NoTask}

\* A notification document (Notification model: read defaults to false).
Notification(userId, type, taskId) ==
    [user |-> userId, type |-> type, taskId |-> taskId, read |-> FALSE]

\* createNotification that saves the notification only for a connected user.
createNotificationIfOnline(ns, userId, type, taskId) ==
    IF connectedUsers[userId] # NoSocket
    THEN Append(ns, Notification(userId, type, taskId))
    ELSE ns

\* createNotification(userId, message, type, taskId) appends one unread
\* notification; applied to the notifications written so far in the request.
createNotification(ns, userId, type, taskId) ==
    Append(ns, Notification(userId, type, taskId))

\* The emits of createNotification for the notifications a request appended:
\* userSocket = connectedUsers.get(userId); if (userSocket) userSocket.emit(...).
Emitted(ns) ==
    {[socket |-> connectedUsers[ns[i].user], user |-> ns[i].user, notification |-> i] :
        i \in {j \in (Len(notifications) + 1)..Len(ns) :
                                    connectedUsers[ns[j].user] # NoSocket}}

\* ------------------------------------------------------ connectWithRetry
\* connection.state: "connecting" while the promise of mongoose.connect is
\* pending, "waiting" while the setTimeout of the catch handler is pending,
\* "connected" after the then handler ran. up: whether MongoDB accepts
\* connections. attempts, failures and scheduled count the calls of
\* connectWithRetry, the rejected promises and the setTimeout calls, and stop
\* counting at MaxAttempts.
Count(n) == IF n < MaxAttempts THEN n + 1 ELSE n

OtherVars ==
    <<users, nextUserId, tasks, nextTaskId, notifications, rolePermissions, res,
      sockets, connectedUsers, emitted, inflight>>

\* connectWithRetry() at start-up: the first attempt is under way.
Connecting(up) ==
    [state |-> "connecting", up |-> up, timers |-> 0,
     attempts |-> 1, failures |-> 0, scheduled |-> 0]

\* .then(() => console.log('Connected to MongoDB'))
ConnectSucceeds ==
    /\ connection.state = "connecting"
    /\ connection.up
    /\ connection' = [connection EXCEPT !.state = "connected"]
    /\ UNCHANGED OtherVars

\* The catch handler that only logs the error.
ConnectFailsNoRetry ==
    /\ connection.state = "connecting"
    /\ ~connection.up
    /\ connection' = [connection EXCEPT !.state = "waiting",
                                         !.failures = Count(@)]
    /\ UNCHANGED OtherVars

\* .catch(...): setTimeout(connectWithRetry, 5000)
ConnectFails ==
    /\ connection.state = "connecting"
    /\ ~connection.up
    /\ connection' = [connection EXCEPT !.state = "waiting",
                                         !.failures = Count(@),
                                         !.scheduled = Count(@),
                                         !.timers = @ + 1]
    /\ UNCHANGED OtherVars

\* The timer fires after 5 seconds and calls connectWithRetry.
RetryTimerFires ==
    /\ connection.timers > 0
    /\ connection' = [connection EXCEPT !.state = "connecting",
                                         !.attempts = Count(@),
                                         !.timers = @ - 1]
    /\ UNCHANGED OtherVars

\* MongoDB starts or stops accepting connections.
DatabaseToggles ==
    /\ connection' = [connection EXCEPT !.up = ~@]
    /\ UNCHANGED OtherVars

\* ------------------------------------------------------ socket.io
\* io.use: the handshake is accepted, with socket.data.user set, only for a
\* token that verifies and names an existing account.
socketAuth(tok) ==
    IF tok.kind # "ok" THEN NoReqUser
    ELSE IF users[tok.uid] = NoUser THEN NoReqUser
    ELSE [id |-> tok.uid, role |-> users[tok.uid].role]

LiveSocketsOf(u) == {s \in SocketIds : sockets[s].live /\ sockets[s].user = u}

\* io.on('connection'): connectedUsers.set(userId, socket). A rejected
\* handshake opens no socket.
SocketConnect(tok) ==
    LET user == socketAuth(tok)
        fresh == {s \in SocketIds : sockets[s] = NoSocketData}
        socket == CHOOSE s \in fresh : \A x \in fresh : s <= x
    IN  /\ fresh # {}
        /\ IF user = NoReqUser
           THEN UNCHANGED <<sockets, connectedUsers>>
           ELSE /\ sockets' = [sockets EXCEPT ![socket] = [user |-> user.id, live |-> TRUE]]
                /\ connectedUsers' = [connectedUsers EXCEPT ![user.id] = socket]
        /\ UNCHANGED <<users, nextUserId, tasks, nextTaskId, notifications, rolePermissions,
                       res, emitted, connection, inflight>>

\* socket.on('disconnect'): connectedUsers.delete(userId), whichever socket
\* of the user the map holds.
connectedUsersDelete(s) == [connectedUsers EXCEPT ![sockets[s].user] = NoSocket]

SocketDisconnect(s) ==
    /\ sockets[s].live
    /\ sockets' = [sockets EXCEPT ![s].live = FALSE]
    /\ connectedUsers' = connectedUsersDelete(s)
    /\ UNCHANGED <<users, nextUserId, tasks, nextTaskId, notifications, rolePermissions,
                   res, emitted, connection, inflight>>

\* ------------------------------------------------------ routes/auth
\* POST /auth/register. body.valid: the email, password and name validators
\* pass; body.role: Undefined, a role, or a string the isIn validator rejects.
Register(body) ==
    /\ IF ~body.valid \/ body.role \notin (Roles \cup {Undefined})
       THEN /\ res' = Validated(FALSE,
                        Response("POST /auth/register", NoToken, NoReqUser, TRUE, 400, NoId, {}))
            /\ UNCHANGED <<users, nextUserId>>
       ELSE IF EmailInUse(body.email)
       THEN /\ res' = Response("POST /auth/register", NoToken, NoReqUser, TRUE, 400, NoId, {})
            /\ UNCHANGED <<users, nextUserId>>
       ELSE /\ nextUserId <= MaxUsers
            /\ users' = [users EXCEPT ![nextUserId] =
                            [role |-> IF body.role = Undefined THEN "user" ELSE body.role,
                             email |-> body.email]]
            /\ nextUserId' = nextUserId + 1
            /\ res' = Response("POST /auth/register", TokenOf(nextUserId), NoReqUser,
                               TRUE, 201, nextUserId, {nextUserId})
    /\ UNCHANGED <<tasks, nextTaskId, notifications, rolePermissions, sockets, connectedUsers, emitted, connection, inflight>>

\* ------------------------------------------------------ routes/users
\* GET /users
UsersList(tok) ==
    LET op == "GET /users"
        auth == authenticateToken(tok)
        perm == checkPermission(auth.user, "users:read")
    IN  /\ res' = IF auth.status # 0 THEN Rejected(op, tok, auth.status, NoId)
                  ELSE IF perm # 0 THEN Response(op, tok, auth.user, TRUE, perm, NoId, {})
                  ELSE Response(op, tok, auth.user, TRUE, 200, NoId, ExistingUsers)
        /\ UNCHANGED <<users, nextUserId, tasks, nextTaskId, notifications, rolePermissions, sockets, connectedUsers, emitted, connection, inflight>>

\* The self check that never fires.
IsSelfNever(id, user) == FALSE

\* user._id.toString() === req.user?._id.toString()
IsSelf(id, user) == id = user.id

\* PUT /users/:id/role with body {role}
UsersSetRole(tok, id, role) ==
    LET op == "PUT /users/:id/role"
        auth == authenticateToken(tok)
        perm == checkPermission(auth.user, "users:manage-roles")
        status ==
            IF auth.status # 0 THEN auth.status
            ELSE IF perm # 0 THEN perm
            ELSE IF role \notin Roles THEN 400
            ELSE IF id = BadId THEN 500          \* findById throws a CastError
            ELSE IF users[id] = NoUser THEN 404
            ELSE IF IsSelf(id, auth.user) THEN 403
            ELSE 200
    IN  /\ res' = Validated(role \in Roles,
                             Response(op, tok, auth.user, auth.status = 0, status, id, {}))
        /\ users' = IF status = 200 THEN [users EXCEPT ![id].role = role] ELSE users
        /\ UNCHANGED <<nextUserId, tasks, nextTaskId, notifications, rolePermissions, sockets, connectedUsers, emitted, connection, inflight>>

\* POST /users with body {name, email, password, role}
UsersCreate(tok, body) ==
    LET op == "POST /users"
        auth == authenticateToken(tok)
        perm == checkPermission(auth.user, "users:create")
        status ==
            IF auth.status # 0 THEN auth.status
            ELSE IF perm # 0 THEN perm
            ELSE IF ~body.valid \/ body.role \notin Roles THEN 400
            ELSE IF EmailInUse(body.email) THEN 400
            ELSE 201
    IN  /\ status = 201 => nextUserId <= MaxUsers
        /\ res' = Validated(body.valid /\ body.role \in Roles,
                             Response(op, tok, auth.user, auth.status = 0, status,
                                      IF status = 201 THEN nextUserId ELSE NoId, {}))
        /\ IF status = 201
           THEN /\ users' = [users EXCEPT ![nextUserId] =
                                [role |-> body.role, email |-> body.email]]
                /\ nextUserId' = nextUserId + 1
           ELSE UNCHANGED <<users, nextUserId>>
        /\ UNCHANGED <<tasks, nextTaskId, notifications, rolePermissions, sockets, connectedUsers, emitted, connection, inflight>>

\* DELETE /users/:id
UsersDelete(tok, id) ==
    LET op == "DELETE /users/:id"
        auth == authenticateToken(tok)
        perm == checkPermission(auth.user, "users:delete")
        status ==
            IF auth.status # 0 THEN auth.status
            ELSE IF perm # 0 THEN perm
            ELSE IF id = BadId THEN 500          \* findById throws a CastError
            ELSE IF users[id] = NoUser THEN 404
            ELSE IF IsSelf(id, auth.user) THEN 403
            ELSE 200
    IN  /\ res' = Response(op, tok, auth.user, auth.status = 0, status, id, {})
        /\ users' = IF status = 200 THEN [users EXCEPT ![id] = NoUser] ELSE users
        /\ UNCHANGED <<nextUserId, tasks, nextTaskId, notifications, rolePermissions, sockets, connectedUsers, emitted, connection, inflight>>

\* ------------------------------------------ services/recurringTaskService
\* The tasks collection together with its id allocator, threaded through the
\* writes of one request. overflow: a write fell outside the model's bounds.
Db(ts, next, overflow) == [tasks |-> ts, next |-> next, overflow |-> overflow]

InstancesOf(ts, pid) == {t \in TaskIds : ts[t] # NoTask /\ ts[t].parentTaskId = pid}

\* Days between two instances of a recurring task.
RecurrenceStep(task) ==
    CASE task.recurringType = "daily" -> 1
      [] task.recurringType = "weekly" -> 7
      [] task.recurringType = "monthly" -> 30
      [] OTHER -> IF task.recurringInterval > 0 THEN task.recurringInterval ELSE 1

MaxOf(S) == CHOOSE x \in S : \A y \in S : y <= x

\* The due date of the next instance: one step after the latest instance, or
\* after the recurring task itself when it has none yet.
NextDueDate(ts, pid) ==
    MaxOf({ts[pid].dueDate} \cup {ts[t].dueDate : t \in InstancesOf(ts, pid)})
        + RecurrenceStep(ts[pid])

\* Whether the recurrence of task pid still has a next instance: it has no end
\* date, or the next due date is not after it.
HasNextInstance(ts, pid) ==
    /\ ts[pid].isRecurring
    /\ \/ ts[pid].recurringEndDate = NoDate
       \/ NextDueDate(ts, pid) <= ts[pid].recurringEndDate

\* createRecurringTaskInstance(task): saves the next instance of recurring task
\* pid, a non-recurring 'todo' copy that names pid as its parent, unless the
\* recurrence has ended.
createRecurringTaskInstance(db, pid) ==
    IF ~HasNextInstance(db.tasks, pid) THEN db
    ELSE IF db.next > MaxTasks \/ NextDueDate(db.tasks, pid) > MaxDate
    THEN Db(db.tasks, db.next, TRUE)
    ELSE Db([db.tasks EXCEPT ![db.next] =
                [createdBy |-> db.tasks[pid].createdBy,
                 assignedTo |-> db.tasks[pid].assignedTo,
                 status |-> "todo",
                 priority |-> db.tasks[pid].priority,
                 dueDate |-> NextDueDate(db.tasks, pid),
                 isRecurring |-> FALSE,
                 recurringType |-> Undefined,
                 recurringInterval |-> 0,
                 recurringEndDate |-> NoDate,
                 parentTaskId |-> pid]],
            db.next + 1, db.overflow)

\* ------------------------------------------------------ routes/tasks
\* JavaScript truthiness of a body's isRecurring.
Truthy(b) == b = "true"

\* wasRecurring !== req.body.isRecurring: a stored boolean against a body field
\* that may be undefined.
BoolDiffers(stored, field) ==
    \/ field = Undefined
    \/ stored # (field = "true")

\* The document POST /tasks saves.
NewTask(user, body) ==
    [createdBy |-> user.id,
     assignedTo |-> body.assignedTo,
     status |-> "todo",
     priority |-> body.priority,
     dueDate |-> body.dueDate,
     isRecurring |-> Truthy(body.isRecurring),
     recurringType |-> body.recurringType,
     recurringInterval |-> body.recurringInterval,
     recurringEndDate |-> body.recurringEndDate,
     parentTaskId |-> NoId]

\* POST /tasks
TaskCreate(tok, body) ==
    LET op == "POST /tasks"
        auth == authenticateToken(tok)
        perm == checkPermission(auth.user, "tasks:create")
        status ==
            IF auth.status # 0 THEN auth.status
            ELSE IF perm # 0 THEN perm
            ELSE IF ~body.valid THEN 400
            ELSE IF body.assignedTo = BadId THEN 500     \* findById throws a CastError
            ELSE IF users[body.assignedTo] = NoUser THEN 404
            ELSE IF Truthy(body.isRecurring) /\ body.recurringType = Undefined THEN 400
            ELSE 201
        id == nextTaskId
        saved == Db([tasks EXCEPT ![id] = NewTask(auth.user, body)], id + 1, FALSE)
        db == IF Truthy(body.isRecurring) THEN createRecurringTaskInstance(saved, id)
              ELSE saved
        ns == IF body.assignedTo # auth.user.id
              THEN createNotification(notifications, body.assignedTo, "task_assigned", id)
              ELSE notifications
    IN  IF status # 201
        THEN /\ res' = Validated(body.valid,
                             Response(op, tok, auth.user, auth.status = 0, status, NoId, {}))
             /\ UNCHANGED <<users, nextUserId, tasks, nextTaskId, notifications, rolePermissions, sockets, connectedUsers, emitted, connection, inflight>>
        ELSE /\ id <= MaxTasks
             /\ ~db.overflow
             /\ Len(ns) <= MaxNotifs
             /\ tasks' = db.tasks
             /\ nextTaskId' = db.next
             /\ notifications' = ns
             /\ emitted' = Emitted(ns)
             /\ res' = Response(op, tok, auth.user, TRUE, 201, id, {id})
             /\ UNCHANGED <<users, nextUserId, rolePermissions, sockets, connectedUsers, connection, inflight>>

\* GET /tasks with the search $or assigned after the ownership $or, so that a
\* search replaces the ownership filter.
ListQueryMatchesSearchWins(user, q, t) ==
    LET canSeeAllTasks == user.role = "admin" \/ user.role = "manager"
    IN  /\ q.status # Undefined => tasks[t].status = q.status
        /\ q.isRecurring # Undefined => tasks[t].isRecurring = (q.isRecurring = "true")
        /\ IF q.search # {NoId} THEN t \in q.search
           ELSE ~canSeeAllTasks =>
                    (tasks[t].assignedTo = user.id \/ tasks[t].createdBy = user.id)
        /\ canSeeAllTasks =>
                /\ q.assignedTo # NoId => tasks[t].assignedTo = q.assignedTo
                /\ q.createdBy # NoId => tasks[t].createdBy = q.createdBy

\* Whether a task document passes the filters of GET /tasks for this caller.
\* q.search: Undefined, or the set of tasks whose title or description the
\* regex matches. For a caller who is neither admin nor manager the $or of the
\* search is overwritten by the ownership $or, and assignedTo/createdBy of the
\* query string are not applied.
ListQueryMatches(user, q, t) ==
    LET canSeeAllTasks == user.role = "admin" \/ user.role = "manager"
    IN  /\ q.status # Undefined => tasks[t].status = q.status
        /\ q.isRecurring # Undefined => tasks[t].isRecurring = (q.isRecurring = "true")
        /\ IF ~canSeeAllTasks
           THEN tasks[t].assignedTo = user.id \/ tasks[t].createdBy = user.id
           ELSE /\ q.search # {NoId} => t \in q.search
                /\ q.assignedTo # NoId => tasks[t].assignedTo = q.assignedTo
                /\ q.createdBy # NoId => tasks[t].createdBy = q.createdBy

\* GET /tasks
TasksList(tok, q) ==
    LET op == "GET /tasks"
        auth == authenticateToken(tok)
    IN  /\ res' = IF auth.status # 0 THEN Rejected(op, tok, auth.status, NoId)
                  ELSE Response(op, tok, auth.user, TRUE, 200, NoId,
                                {t \in ExistingTasks : ListQueryMatches(auth.user, q, t)})
        /\ UNCHANGED <<users, nextUserId, tasks, nextTaskId, notifications, rolePermissions, sockets, connectedUsers, emitted, connection, inflight>>

\* baseQuery of GET /tasks/stats with the $or left out for managers only.
StatsScopeManagerOnly(user) ==
    IF user.role = "manager"
    THEN ExistingTasks
    ELSE {t \in ExistingTasks : tasks[t].assignedTo = user.id \/ tasks[t].createdBy = user.id}

\* baseQuery of GET /tasks/stats: every task for an admin or manager, the tasks
\* assigned to or created by the caller for anybody else.
StatsScope(user) ==
    IF user.role = "admin" \/ user.role = "manager"
    THEN ExistingTasks
    ELSE {t \in ExistingTasks : tasks[t].assignedTo = user.id \/ tasks[t].createdBy = user.id}

\* The figures of GET /tasks/stats as the tasks each of them counts: <<f, t>>
\* says that task t is counted in figure f (for "status" and "priority", in the
\* group of its value). today is the server's date; a week is 7 days.
StatsFigures(user, today) ==
    LET scope == StatsScope(user)
    IN  {<<"status", t>> : t \in scope}
        \cup {<<"priority", t>> : t \in scope}
        \cup {<<"overdue", t>> : t \in {x \in scope :
                    /\ tasks[x].dueDate # NoDate
                    /\ tasks[x].dueDate < today
                    /\ tasks[x].status # "completed"}}
        \cup {<<"dueToday", t>> : t \in {x \in scope :
                    tasks[x].dueDate >= today /\ tasks[x].dueDate < today + 1}}
        \cup {<<"dueThisWeek", t>> : t \in {x \in scope :
                    tasks[x].dueDate >= today /\ tasks[x].dueDate < today + 7}}

\* GET /tasks/stats
TaskStats(tok, today) ==
    LET op == "GET /tasks/stats"
        auth == authenticateToken(tok)
    IN  /\ res' = IF auth.status # 0 THEN Rejected(op, tok, auth.status, NoId)
                  ELSE Response(op, tok, auth.user, TRUE, 200, NoId,
                                StatsFigures(auth.user, today))
        /\ UNCHANGED <<users, nextUserId, tasks, nextTaskId, notifications, rolePermissions,
                       sockets, connectedUsers, emitted, connection, inflight>>

\* The role check of GET /tasks/:id
CanViewTask(user, task) ==
    \/ task.createdBy = user.id
    \/ task.assignedTo = user.id
    \/ user.role = "admin"
    \/ user.role = "manager"

\* GET /tasks/:id
TaskGet(tok, id) ==
    LET op == "GET /tasks/:id"
        auth == authenticateToken(tok)
        status ==
            IF auth.status # 0 THEN auth.status
            ELSE IF id = BadId THEN 400
            ELSE IF tasks[id] = NoTask THEN 404
            ELSE IF ~CanViewTask(auth.user, tasks[id]) THEN 403
            ELSE 200
    IN  /\ res' = Response(op, tok, auth.user, auth.status = 0, status, id,
                           IF status = 200 THEN {id} ELSE {})
        /\ UNCHANGED <<users, nextUserId, tasks, nextTaskId, notifications, rolePermissions, sockets, connectedUsers, emitted, connection, inflight>>

\* The update check that also lets the assignee through.
CanUpdateTaskAssignee(user, task) ==
    \/ task.createdBy = user.id
    \/ task.assignedTo = user.id
    \/ user.role = "admin"
    \/ user.role = "manager"

\* The role check of PUT /tasks/:id
CanUpdateTask(user, task) ==
    \/ task.createdBy = user.id
    \/ user.role = "admin"
    \/ user.role = "manager"

\* The role check of DELETE /tasks/:id
CanDeleteTask(user, task) ==
    \/ task.createdBy = user.id
    \/ user.role = "admin"

\* findByIdAndUpdate(id, {$set: req.body}): every field the body defines
\* replaces the stored one.
ApplyBody(task, body) ==
    [task EXCEPT
        !.status = IF body.status # Undefined THEN body.status ELSE @,
        !.priority = IF body.priority # Undefined THEN body.priority ELSE @,
        !.assignedTo = IF body.assignedTo # NoId THEN body.assignedTo ELSE @,
        !.dueDate = IF body.dueDate # NoDate THEN body.dueDate ELSE @,
        !.isRecurring = IF body.isRecurring # Undefined THEN Truthy(body.isRecurring) ELSE @,
        !.recurringType = IF body.recurringType # Undefined THEN body.recurringType ELSE @,
        !.recurringInterval = IF body.recurringInterval # 0 THEN body.recurringInterval ELSE @,
        !.recurringEndDate = IF body.recurringEndDate # NoDate THEN body.recurringEndDate ELSE @]

\* Task.deleteMany({parentTaskId: pid})
DeleteInstances(db, pid) ==
    Db([t \in TaskIds |-> IF t \in InstancesOf(db.tasks, pid) THEN NoTask ELSE db.tasks[t]],
       db.next, db.overflow)

\* The writes of PUT /tasks/:id with the instances generated from the task as
\* it was read before the update (task in place of updatedTask).
UpdateWritesStale(id, body) ==
    LET old == tasks[id]
        new == ApplyBody(old, body)
        stale == Db(tasks, nextTaskId, FALSE)
        isNowCompleted == body.status = "completed" /\ old.status # "completed"
        afterCompletion ==
            IF isNowCompleted /\ new.isRecurring
            THEN createRecurringTaskInstance(stale, id)
            ELSE stale
        recurringChanged ==
            \/ BoolDiffers(old.isRecurring, body.isRecurring)
            \/ old.recurringType # body.recurringType
        final ==
            IF recurringChanged /\ new.isRecurring
            THEN createRecurringTaskInstance(DeleteInstances(afterCompletion, id), id)
            ELSE afterCompletion
    IN  Db([final.tasks EXCEPT ![id] = new], final.next, final.overflow)

\* The database writes of PUT /tasks/:id after its checks: the update, the next
\* instance on completion, and the re-schedule when the recurring settings
\* compare unequal to the body's.
UpdateWrites(id, body) ==
    LET old == tasks[id]
        updated == Db([tasks EXCEPT ![id] = ApplyBody(old, body)], nextTaskId, FALSE)
        isNowCompleted == body.status = "completed" /\ old.status # "completed"
        afterCompletion ==
            IF isNowCompleted /\ updated.tasks[id].isRecurring
            THEN createRecurringTaskInstance(updated, id)
            ELSE updated
        recurringChanged ==
            \/ BoolDiffers(old.isRecurring, body.isRecurring)
            \/ old.recurringType # body.recurringType
    IN  IF recurringChanged /\ updated.tasks[id].isRecurring
        THEN createRecurringTaskInstance(DeleteInstances(afterCompletion, id), id)
        ELSE afterCompletion

\* The notifications of PUT /tasks/:id, in the order the handler creates them.
UpdateNotifications(user, id, body) ==
    LET old == tasks[id]
        originalAssignee == old.assignedTo
        n1 == IF body.assignedTo # NoId /\ body.assignedTo # originalAssignee
              THEN createNotification(notifications, body.assignedTo, "task_assigned", id)
              ELSE notifications
        n2 == IF /\ body.status = "completed" /\ old.status # "completed"
                 /\ old.createdBy # user.id
              THEN createNotification(n1, old.createdBy, "task_completed", id)
              ELSE n1
    IN  IF /\ user.id # originalAssignee
           /\ (body.assignedTo = NoId \/ body.assignedTo = originalAssignee)
        THEN createNotification(n2, originalAssignee, "task_updated", id)
        ELSE n2

\* PUT /tasks/:id
TaskUpdate(tok, id, body) ==
    LET op == "PUT /tasks/:id"
        auth == authenticateToken(tok)
        status ==
            IF auth.status # 0 THEN auth.status
            ELSE IF ~body.valid THEN 400
            ELSE IF id = BadId THEN 400
            ELSE IF tasks[id] = NoTask THEN 404
            ELSE IF ~CanUpdateTask(auth.user, tasks[id]) THEN 403
            ELSE IF tasks[id].parentTaskId # NoId /\ Truthy(body.isRecurring) THEN 400
            ELSE IF body.assignedTo = BadId THEN 500     \* the update throws a CastError
            ELSE 200
        db == UpdateWrites(id, body)
        ns == UpdateNotifications(auth.user, id, body)
    IN  IF status # 200
        THEN /\ res' = Validated(body.valid,
                             Response(op, tok, auth.user, auth.status = 0, status, id, {}))
             /\ UNCHANGED <<users, nextUserId, tasks, nextTaskId, notifications, rolePermissions, sockets, connectedUsers, emitted, connection, inflight>>
        ELSE /\ ~db.overflow
             /\ Len(ns) <= MaxNotifs
             /\ tasks' = db.tasks
             /\ nextTaskId' = db.next
             /\ notifications' = ns
             /\ emitted' = Emitted(ns)
             /\ res' = Response(op, tok, auth.user, TRUE, 200, id, {id})
             /\ UNCHANGED <<users, nextUserId, rolePermissions, sockets, connectedUsers, connection, inflight>>

\* ---- PUT /tasks/:id as the two database round trips it makes, so that other
\* ---- requests can run between its findById and its findByIdAndUpdate.
\* The writes after the update, decided on the document req.task that findById
\* returned: originalStatus, wasRecurring and originalRecurringType are its
\* values, while $set applies to the document as it is stored now.
UpdateWritesFrom(req) ==
    LET id == req.id
        body == req.body
        old == req.task
        exists == tasks[id] # NoTask
        updated == IF exists
                   THEN Db([tasks EXCEPT ![id] = ApplyBody(tasks[id], body)], nextTaskId, FALSE)
                   ELSE Db(tasks, nextTaskId, FALSE)
        updatedIsRecurring == exists /\ updated.tasks[id].isRecurring
        isNowCompleted == body.status = "completed" /\ old.status # "completed"
        afterCompletion ==
            IF isNowCompleted /\ updatedIsRecurring
            THEN createRecurringTaskInstance(updated, id)
            ELSE updated
        recurringChanged ==
            \/ BoolDiffers(old.isRecurring, body.isRecurring)
            \/ old.recurringType # body.recurringType
    IN  IF recurringChanged /\ updatedIsRecurring
        THEN createRecurringTaskInstance(DeleteInstances(afterCompletion, id), id)
        ELSE afterCompletion

\* The notifications of the request, decided on req.task as well.
UpdateNotificationsFrom(req) ==
    LET old == req.task
        body == req.body
        originalAssignee == old.assignedTo
        n1 == IF body.assignedTo # NoId /\ body.assignedTo # originalAssignee
              THEN createNotification(notifications, body.assignedTo, "task_assigned", req.id)
              ELSE notifications
        n2 == IF /\ body.status = "completed" /\ old.status # "completed"
                 /\ old.createdBy # req.user.id
              THEN createNotification(n1, old.createdBy, "task_completed", req.id)
              ELSE n1
    IN  IF /\ req.user.id # originalAssignee
           /\ (body.assignedTo = NoId \/ body.assignedTo = originalAssignee)
        THEN createNotification(n2, originalAssignee, "task_updated", req.id)
        ELSE n2

\* PUT /tasks/:id up to the values saved from the document findById returned:
\* the request is answered at once when a check fails, and is in flight in slot
\* r otherwise.
TaskUpdateRead(r, tok, id, body) ==
    LET op == "PUT /tasks/:id"
        auth == authenticateToken(tok)
        status ==
            IF auth.status # 0 THEN auth.status
            ELSE IF ~body.valid THEN 400
            ELSE IF id = BadId THEN 400
            ELSE IF tasks[id] = NoTask THEN 404
            ELSE IF ~CanUpdateTask(auth.user, tasks[id]) THEN 403
            ELSE IF tasks[id].parentTaskId # NoId /\ Truthy(body.isRecurring) THEN 400
            ELSE 0
    IN  /\ inflight[r].id = NoId
        /\ IF status # 0
           THEN /\ res' = Validated(body.valid,
                              Response(op, tok, auth.user, auth.status = 0, status, id, {}))
                /\ UNCHANGED inflight
           ELSE /\ inflight' = [inflight EXCEPT ![r] =
                                  [id |-> id, tok |-> tok, user |-> auth.user,
                                   body |-> body, task |-> tasks[id]]]
                /\ UNCHANGED res
        /\ UNCHANGED <<users, nextUserId, tasks, nextTaskId, notifications, rolePermissions,
                       sockets, connectedUsers, emitted, connection>>

\* The rest of the request in slot r: findByIdAndUpdate, the next instance on
\* completion, the re-schedule, the notifications and the response.
TaskUpdateWrite(r) ==
    LET op == "PUT /tasks/:id"
        req == inflight[r]
        db == UpdateWritesFrom(req)
        ns == UpdateNotificationsFrom(req)
    IN  /\ req.id # NoId
        /\ inflight' = [inflight EXCEPT ![r] = NoRequest]
        /\ IF req.body.assignedTo = BadId          \* the update throws a CastError
           THEN /\ res' = Response(op, req.tok, req.user, TRUE, 500, req.id, {})
                /\ UNCHANGED <<tasks, nextTaskId, notifications, emitted>>
           ELSE /\ ~db.overflow
                /\ Len(ns) <= MaxNotifs
                /\ tasks' = db.tasks
                /\ nextTaskId' = db.next
                /\ notifications' = ns
                /\ emitted' = Emitted(ns)
                /\ res' = Response(op, req.tok, req.user, TRUE, 200, req.id, {req.id})
        /\ UNCHANGED <<users, nextUserId, rolePermissions, sockets, connectedUsers, connection>>

\* DELETE /tasks/:id
TaskDelete(tok, id) ==
    LET op == "DELETE /tasks/:id"
        auth == authenticateToken(tok)
        status ==
            IF auth.status # 0 THEN auth.status
            ELSE IF id = BadId THEN 400
            ELSE IF tasks[id] = NoTask THEN 404
            ELSE IF ~CanDeleteTask(auth.user, tasks[id]) THEN 403
            ELSE 200
        ns == IF tasks[id].assignedTo # auth.user.id
              THEN createNotification(notifications, tasks[id].assignedTo, "system", NoId)
              ELSE notifications
    IN  IF status # 200
        THEN /\ res' = Response(op, tok, auth.user, auth.status = 0, status, id, {})
             /\ UNCHANGED <<users, nextUserId, tasks, nextTaskId, notifications, rolePermissions, sockets, connectedUsers, emitted, connection, inflight>>
        ELSE /\ Len(ns) <= MaxNotifs
             /\ tasks' = [tasks EXCEPT ![id] = NoTask]
             /\ notifications' = ns
             /\ emitted' = Emitted(ns)
             /\ res' = Response(op, tok, auth.user, TRUE, 200, id, {})
             /\ UNCHANGED <<users, nextUserId, nextTaskId, rolePermissions, sockets, connectedUsers, connection, inflight>>

\* ------------------------------------------------------ routes/notifications
\* A notification's _id is its position in notifications; a deleted document
\* leaves NoNotification at its position, so that ids are never reused.
NoNotification == [user |-> NoId, type |-> "deleted", taskId |-> NoId, read |-> FALSE]

\* Notification.findById(id) finds a document.
NotificationExists(id) ==
    /\ id \in 1..Len(notifications)
    /\ notifications[id] # NoNotification

\* The ownership check that lets every caller through.
IsRecipientAlways(notification, user) == TRUE

\* notification.user.toString() === req.user?._id.toString()
IsRecipient(notification, user) == notification.user = user.id

\* .limit(50)
NotificationLimit == 50

\* Notification.find({user}).sort({createdAt: -1}).limit(50): the ids of the
\* user's notifications, newest first.
OwnNewestFirst(user) ==
    LET own == {i \in 1..Len(notifications) : notifications[i].user = user.id}
        n == IF Cardinality(own) < NotificationLimit THEN Cardinality(own)
             ELSE NotificationLimit
    IN  [k \in 1..n |-> CHOOSE i \in own : Cardinality({j \in own : j > i}) = k - 1]

\* GET /notifications
NotifList(tok) ==
    LET op == "GET /notifications"
        auth == authenticateToken(tok)
    IN  /\ res' = IF auth.status # 0 THEN Rejected(op, tok, auth.status, NoId)
                  ELSE Response(op, tok, auth.user, TRUE, 200, NoId, OwnNewestFirst(auth.user))
        /\ UNCHANGED <<users, nextUserId, tasks, nextTaskId, notifications, rolePermissions,
                       sockets, connectedUsers, emitted, connection, inflight>>

\* The status of PUT /notifications/:id/read and DELETE /notifications/:id
NotifStatus(auth, id) ==
    IF auth.status # 0 THEN auth.status
    ELSE IF id = BadId THEN 400
    ELSE IF ~NotificationExists(id) THEN 404
    ELSE IF ~IsRecipient(notifications[id], auth.user) THEN 403
    ELSE 200

\* PUT /notifications/:id/read
NotifMarkRead(tok, id) ==
    LET op == "PUT /notifications/:id/read"
        auth == authenticateToken(tok)
        status == NotifStatus(auth, id)
    IN  /\ res' = Response(op, tok, auth.user, auth.status = 0, status, id, {})
        /\ notifications' = IF status = 200
                            THEN [notifications EXCEPT ![id].read = TRUE]
                            ELSE notifications
        /\ UNCHANGED <<users, nextUserId, tasks, nextTaskId, rolePermissions,
                       sockets, connectedUsers, emitted, connection, inflight>>

\* PUT /notifications/read-all
NotifReadAll(tok) ==
    LET op == "PUT /notifications/read-all"
        auth == authenticateToken(tok)
    IN  /\ res' = IF auth.status # 0 THEN Rejected(op, tok, auth.status, NoId)
                  ELSE Response(op, tok, auth.user, TRUE, 200, NoId, {})
        /\ notifications' =
              IF auth.status # 0 THEN notifications
              ELSE [i \in 1..Len(notifications) |->
                       IF notifications[i].user = auth.user.id /\ ~notifications[i].read
                       THEN [notifications[i] EXCEPT !.read = TRUE]
                       ELSE notifications[i]]
        /\ UNCHANGED <<users, nextUserId, tasks, nextTaskId, rolePermissions,
                       sockets, connectedUsers, emitted, connection, inflight>>

\* DELETE /notifications/:id
NotifDelete(tok, id) ==
    LET op == "DELETE /notifications/:id"
        auth == authenticateToken(tok)
        status == NotifStatus(auth, id)
    IN  /\ res' = Response(op, tok, auth.user, auth.status = 0, status, id, {})
        /\ notifications' = IF status = 200
                            THEN [notifications EXCEPT ![id] = NoNotification]
                            ELSE notifications
        /\ UNCHANGED <<users, nextUserId, tasks, nextTaskId, rolePermissions,
                       sockets, connectedUsers, emitted, connection, inflight>>

\* ------------------------------------------------------ cron job
\* processCompletedRecurringTasks: every completed recurring task gets its next
\* instance. ids: the tasks the query returned, handled in id order.
RECURSIVE processCompletedRecurringTasks(_, _)
processCompletedRecurringTasks(db, ids) ==
    IF ids = {} THEN db
    ELSE LET t == CHOOSE x \in ids : \A y \in ids : x <= y
         IN  processCompletedRecurringTasks(
                 IF db.tasks[t].isRecurring /\ db.tasks[t].status = "completed"
                 THEN createRecurringTaskInstance(db, t) ELSE db,
                 ids \ {t})

\* generateUpcomingRecurringTasks: every recurring task without an open
\* (not completed) instance gets its next instance.
RECURSIVE generateUpcomingRecurringTasks(_, _)
generateUpcomingRecurringTasks(db, ids) ==
    IF ids = {} THEN db
    ELSE LET t == CHOOSE x \in ids : \A y \in ids : x <= y
             open == {c \in InstancesOf(db.tasks, t) : db.tasks[c].status # "completed"}
         IN  generateUpcomingRecurringTasks(
                 IF db.tasks[t].isRecurring /\ open = {}
                 THEN createRecurringTaskInstance(db, t) ELSE db,
                 ids \ {t})

\* cron.schedule('0 0 * * *'): the daily job runs both passes.
CronRun ==
    LET start == Db(tasks, nextTaskId, FALSE)
        completed == processCompletedRecurringTasks(start, ExistingTasks)
        db == generateUpcomingRecurringTasks(completed,
                  {t \in TaskIds : completed.tasks[t] # NoTask})
    IN  /\ ~db.overflow
        /\ tasks' = db.tasks
        /\ nextTaskId' = db.next
        /\ res' = Response("cron", NoToken, NoReqUser, FALSE, 0, NoId, {})
        /\ UNCHANGED <<users, nextUserId, notifications, rolePermissions, sockets, connectedUsers, emitted, connection, inflight>>

\* ------------------------------------------------------ specifications
\* Request inputs.
UserTargets == UserIds \cup {BadId}
TaskTargets == TaskIds \cup {BadId}
RoleInputs == Roles \cup {"superuser"}
AccountBodies ==
    [valid : BOOLEAN, email : Emails, role : Roles \cup {Undefined, "superuser"}]

NoRecurrence ==
    [isRecurring |-> Undefined, recurringType |-> Undefined,
     recurringInterval |-> 0, recurringEndDate |-> NoDate]

\* A body of POST /tasks or PUT /tasks/:id.
TaskBody(valid, status, assignedTo, dueDate, rec) ==
    [valid |-> valid, status |-> status, priority |-> Undefined,
     assignedTo |-> assignedTo, dueDate |-> dueDate,
     isRecurring |-> rec.isRecurring, recurringType |-> rec.recurringType,
     recurringInterval |-> rec.recurringInterval,
     recurringEndDate |-> rec.recurringEndDate]

\* The query string of GET /tasks without any filter.
NoQuery ==
    [status |-> Undefined, isRecurring |-> Undefined, assignedTo |-> NoId,
     createdBy |-> NoId, search |-> {NoId}]

\* res.json(...) returns: the response is on the wire and the request is over.
Reply ==
    /\ ~Idle
    /\ res' = NoResponse
    /\ emitted' = {}
    /\ UNCHANGED <<users, nextUserId, tasks, nextTaskId, notifications, rolePermissions,
                   sockets, connectedUsers, connection, inflight>>

\* ---- accounts: registration, user management and the token gate of every
\* ---- mounted router, from an empty database
AccountTaskBodies == {TaskBody(TRUE, Undefined, a, 0, NoRecurrence) : a \in UserIds}
AccountUpdateBodies == {TaskBody(TRUE, "completed", NoId, NoDate, NoRecurrence)}

\* No socket.io client, the database connected, no request in flight.
Quiet ==
    /\ sockets = [s \in SocketIds |-> NoSocketData]
    /\ connectedUsers = [u \in UserIds |-> NoSocket]
    /\ emitted = {}
    /\ connection = Established
    /\ inflight = [r \in Requests |-> NoRequest]

\* The server after start-up, on an empty database.
Init ==
    /\ users = [u \in UserIds |-> NoUser]
    /\ nextUserId = 1
    /\ tasks = [t \in TaskIds |-> NoTask]
    /\ nextTaskId = 1
    /\ notifications = << >>
    /\ rolePermissions = RolePermissionsTable
    /\ res = NoResponse
    /\ Quiet

\* Requests are served one at a time, each handler as one step.
Next ==
    \/ Idle /\ \E body \in AccountBodies : Register(body)
    \/ Idle /\ \E tok \in Tokens : UsersList(tok)
    \/ Idle /\ \E tok \in Tokens, id \in UserTargets, role \in RoleInputs : UsersSetRole(tok, id, role)
    \/ Idle /\ \E tok \in Tokens, body \in AccountBodies : UsersCreate(tok, body)
    \/ Idle /\ \E tok \in Tokens, id \in UserTargets : UsersDelete(tok, id)
    \/ Idle /\ nextTaskId <= MaxAccountTasks
            /\ \E tok \in Tokens, body \in AccountTaskBodies : TaskCreate(tok, body)
    \/ Idle /\ \E tok \in Tokens : TasksList(tok, NoQuery)
    \/ Idle /\ \E tok \in Tokens, id \in TaskTargets : TaskGet(tok, id)
    \/ Idle /\ \E tok \in Tokens, id \in TaskTargets, body \in AccountUpdateBodies :
                  TaskUpdate(tok, id, body)
    \/ Idle /\ \E tok \in Tokens, id \in TaskTargets : TaskDelete(tok, id)
    \/ Reply

Spec == Init /\ [][Next]_vars

\* ---- the task routes over a database that holds accounts of every role
\* Accounts registered earlier: an admin, a manager, and regular users.
SeededUsers ==
    [u \in UserIds |->
        [role |-> IF u = 1 THEN "admin" ELSE IF u = 2 THEN "manager" ELSE "user",
         email |-> 1 + (u % MaxEmails)]]

AccessCreateBodies ==
    {TaskBody(v, Undefined, a, 0, NoRecurrence) : v \in BOOLEAN, a \in UserIds \cup {BadId}}

AccessUpdateBodies ==
    {TaskBody(v, s, a, NoDate, NoRecurrence) :
        v \in BOOLEAN, s \in {Undefined, "completed"}, a \in {NoId, 1, MaxUsers}}

ListQueries ==
    [status : {Undefined, "completed"}, isRecurring : {Undefined},
     assignedTo : {NoId, 1}, createdBy : {NoId, 2}, search : {{NoId}, {1}}]

InitTasks ==
    /\ users = SeededUsers
    /\ nextUserId = MaxUsers + 1
    /\ tasks = [t \in TaskIds |-> NoTask]
    /\ nextTaskId = 1
    /\ notifications = << >>
    /\ rolePermissions = RolePermissionsTable
    /\ res = NoResponse
    /\ Quiet

NextTasks ==
    \/ Idle /\ nextTaskId <= MaxAccessTasks
            /\ \E tok \in Tokens, body \in AccessCreateBodies : TaskCreate(tok, body)
    \/ Idle /\ \E tok \in Tokens, q \in ListQueries : TasksList(tok, q)
    \/ Idle /\ \E tok \in Tokens, id \in TaskTargets : TaskGet(tok, id)
    \/ Idle /\ \E tok \in Tokens, id \in TaskTargets, body \in AccessUpdateBodies :
                  TaskUpdate(tok, id, body)
    \/ Idle /\ \E tok \in Tokens, id \in TaskTargets : TaskDelete(tok, id)
    \/ Reply

SpecTasks == InitTasks /\ [][NextTasks]_vars

\* ---- recurrence: one account creates, edits, completes and deletes recurring
\* ---- tasks while the daily job runs
Recurrence(isRecurring, type, interval, endDate) ==
    [isRecurring |-> isRecurring, recurringType |-> type,
     recurringInterval |-> interval, recurringEndDate |-> endDate]

\* The recurrence settings a request can carry: none, daily, every second day
\* (custom), each with or without an end date, and switching recurrence off.
RecurrenceInputs ==
    {NoRecurrence, Recurrence("false", Undefined, 0, NoDate)}
    \cup {Recurrence(r, "daily", 0, e) : r \in {Undefined, "true"}, e \in {NoDate, 1, 2}}
    \cup {Recurrence("true", "custom", 2, e) : e \in {NoDate, 2}}
    \cup {Recurrence("true", Undefined, 0, NoDate)}

RecurCreateBodies ==
    {TaskBody(TRUE, Undefined, 1, 0, rec) : rec \in RecurrenceInputs}

RecurUpdateBodies ==
    {TaskBody(TRUE, Undefined, NoId, NoDate, rec) : rec \in RecurrenceInputs \ {NoRecurrence}}
    \cup {TaskBody(TRUE, st, NoId, NoDate, NoRecurrence) : st \in {"completed", "todo"}}
    \cup {TaskBody(TRUE, Undefined, NoId, MaxDate, NoRecurrence)}

InitRecur ==
    /\ users = SeededUsers
    /\ nextUserId = MaxUsers + 1
    /\ tasks = [t \in TaskIds |-> NoTask]
    /\ nextTaskId = 1
    /\ notifications = << >>
    /\ rolePermissions = RolePermissionsTable
    /\ res = NoResponse
    /\ Quiet

NextRecur ==
    \/ Idle /\ Cardinality({t \in ExistingTasks : tasks[t].parentTaskId = NoId}) < MaxRecurringRoots
            /\ \E body \in RecurCreateBodies : TaskCreate(TokenOf(1), body)
    \/ Idle /\ \E id \in TaskIds, body \in RecurUpdateBodies : TaskUpdate(TokenOf(1), id, body)
    \/ Idle /\ \E id \in TaskIds : TaskDelete(TokenOf(1), id)
    \/ Idle /\ CronRun
    \/ Reply

SpecRecur == InitRecur /\ [][NextRecur]_vars

\* ---- notifications while socket.io clients connect and disconnect
SocketCreateBodies == {TaskBody(TRUE, Undefined, a, 0, NoRecurrence) : a \in UserIds}

NextSockets ==
    \/ Idle /\ \E tok \in Tokens : SocketConnect(tok)
    \/ Idle /\ \E s \in SocketIds : SocketDisconnect(s)
    \/ Idle /\ nextTaskId <= MaxAccessTasks
            /\ \E tok \in Tokens, body \in SocketCreateBodies : TaskCreate(tok, body)
    \/ Reply

SpecSockets == InitTasks /\ [][NextSockets]_vars

\* ---- statistics over tasks of several owners, due dates and statuses
\* Due dates before, on and more than a week after the days the server is asked.
StatsDueDates == {0, 2, 9}
StatsDays == {1, 2}
StatsCreateBodies ==
    {TaskBody(TRUE, Undefined, a, d, NoRecurrence) : a \in UserIds, d \in StatsDueDates}
StatsUpdateBodies == {TaskBody(TRUE, "completed", NoId, NoDate, NoRecurrence)}

NextStats ==
    \/ Idle /\ nextTaskId <= MaxAccessTasks
            /\ \E tok \in Tokens, body \in StatsCreateBodies : TaskCreate(tok, body)
    \/ Idle /\ \E tok \in Tokens, id \in TaskIds, body \in StatsUpdateBodies :
                  TaskUpdate(tok, id, body)
    \/ Idle /\ \E tok \in Tokens, today \in StatsDays : TaskStats(tok, today)
    \/ Reply

SpecStats == InitTasks /\ [][NextStats]_vars

\* ---- start-up: the database connection and its retries, before any request
InitConnect ==
    /\ users = [u \in UserIds |-> NoUser]
    /\ nextUserId = 1
    /\ tasks = [t \in TaskIds |-> NoTask]
    /\ nextTaskId = 1
    /\ notifications = << >>
    /\ rolePermissions = RolePermissionsTable
    /\ res = NoResponse
    /\ sockets = [s \in SocketIds |-> NoSocketData]
    /\ connectedUsers = [u \in UserIds |-> NoSocket]
    /\ emitted = {}
    /\ inflight = [r \in Requests |-> NoRequest]
    /\ \E up \in BOOLEAN : connection = Connecting(up)

NextConnect ==
    \/ ConnectSucceeds
    \/ ConnectFails
    \/ RetryTimerFires
    \/ DatabaseToggles

\* A pending promise settles and a pending timer fires; the database is free
\* to stay down.
SpecConnect ==
    /\ InitConnect
    /\ [][NextConnect]_vars
    /\ WF_vars(ConnectSucceeds)
    /\ WF_vars(ConnectFails)
    /\ WF_vars(RetryTimerFires)

\* ---- overlapping updates of one recurring task
\* A daily task whose end date allows no instance yet, and updates that restate
\* its recurring settings, extend the end date and set the status.
RaceCreateBodies == {TaskBody(TRUE, Undefined, 1, 0, Recurrence("true", "daily", 0, 0))}

RaceUpdateBodies ==
    {TaskBody(v, st, a, NoDate, Recurrence("true", "daily", 0, 2)) :
        v \in BOOLEAN, st \in {Undefined, "completed"}, a \in {NoId, BadId}}

NextRace ==
    \/ Idle /\ Cardinality({t \in ExistingTasks : tasks[t].parentTaskId = NoId}) < MaxRecurringRoots
            /\ \E body \in RaceCreateBodies : TaskCreate(TokenOf(1), body)
    \/ Idle /\ \E r \in Requests, tok \in Tokens, id \in TaskIds, body \in RaceUpdateBodies :
                  TaskUpdateRead(r, tok, id, body)
    \/ Idle /\ \E r \in Requests : TaskUpdateWrite(r)
    \/ Reply

SpecRace == InitTasks /\ [][NextRace]_vars

\* ---- the notification routes over notifications of several recipients
NotifTargets == (1..MaxNotifs) \cup {BadId}
NotifCreateBodies == {TaskBody(TRUE, Undefined, a, 0, NoRecurrence) : a \in UserIds}

NextNotifs ==
    \/ Idle /\ nextTaskId <= MaxAccessTasks
            /\ \E tok \in Tokens, body \in NotifCreateBodies : TaskCreate(tok, body)
    \/ Idle /\ \E tok \in Tokens : NotifList(tok)
    \/ Idle /\ \E tok \in Tokens, id \in NotifTargets : NotifMarkRead(tok, id)
    \/ Idle /\ \E tok \in Tokens : NotifReadAll(tok)
    \/ Idle /\ \E tok \in Tokens, id \in NotifTargets : NotifDelete(tok, id)
    \/ Reply

SpecNotifs == InitTasks /\ [][NextNotifs]_vars

\* =================================================================== claims
ProtectedOps ==
    {"GET /users", "PUT /users/:id/role", "POST /users", "DELETE /users/:id",
     "POST /tasks", "GET /tasks", "GET /tasks/:id", "PUT /tasks/:id",
     "DELETE /tasks/:id"}

DbUnchanged ==
    UNCHANGED <<users, nextUserId, tasks, nextTaskId, notifications, rolePermissions, sockets, connectedUsers, emitted, connection, inflight>>

\* Every req.user object a request can carry: none, and any id with any role,
\* a missing role and a role the table does not list among them.
ReqUsers ==
    {NoReqUser} \cup [id : UserIds, role : Roles \cup {NoRole, "guest"}]

\* C1: hasPermission(user, p) is true exactly when the user exists, has a role
\* and p is in the permission set the table gives that role; it is false for a
\* missing user, a missing role and a role absent from the table. The table is
\* the one rbac defines in every reachable state: no operation changes it.
C1_HasPermissionIsTableLookup ==
    /\ rolePermissions = RolePermissionsTable
    /\ \A user \in ReqUsers, p \in Permissions \cup {"tasks:archive"} :
          hasPermission(user, p) <=>
              /\ user # NoReqUser
              /\ user.role # NoRole
              /\ user.role \in Roles
              /\ p \in RolePermissionsTable[user.role]

\* C1 witness: checkPermission has looked a manager's permission up and refused.
C1_Witness ==
    /\ res.op = "POST /users"
    /\ res.status = 403
    /\ res.user.role = "manager"

UserMutations == {"PUT /users/:id/role", "POST /users", "DELETE /users/:id"}

\* C6: POST /users, PUT /users/:id/role and DELETE /users/:id change the
\* accounts only when the caller's stored role is admin; a manager or regular
\* user gets 403 and the accounts and their roles stay as they were.
C6_UserMutationsAdminOnly ==
    [][res'.op \in UserMutations =>
        /\ (users' # users \/ nextUserId' # nextUserId) =>
               /\ res'.ran
               /\ users[res'.tok.uid].role = "admin"
        /\ (res'.ran /\ users[res'.tok.uid].role # "admin") =>
               /\ res'.status = 403
               /\ users' = users
               /\ nextUserId' = nextUserId]_vars

\* C6 witness: a manager asked to delete an account and got 403.
C6_Witness ==
    /\ res.op = "DELETE /users/:id"
    /\ res.user.role = "manager"
    /\ res.target \in ExistingUsers
    /\ res.target # res.user.id
    /\ res.status = 403

\* C7 (as claimed): GET /users returns the accounts only to an admin; every
\* caller of another role gets 403.
C7_UsersListAdminOnly ==
    (res.op = "GET /users" /\ res.ran) =>
        IF res.user.role = "admin"
        THEN res.status = 200 /\ res.out = ExistingUsers
        ELSE res.status = 403 /\ res.out = {}

SelfOrMissingOps == {"PUT /users/:id/role", "DELETE /users/:id"}

\* C8 (as claimed): for an admin, PUT /users/:id/role and DELETE /users/:id
\* whose target is the caller answer 403, and a target that does not exist
\* answers 404; both leave the accounts unchanged.
C8_SelfAndMissingAsClaimed ==
    [][(res'.op \in SelfOrMissingOps /\ res'.ran /\ users[res'.tok.uid].role = "admin") =>
        /\ res'.target = res'.tok.uid =>
               res'.status = 403 /\ users' = users
        /\ res'.target \notin ExistingUsers =>
               res'.status = 404 /\ users' = users]_vars

\* C8 (amended): for an admin, PUT /users/:id/role and DELETE /users/:id whose
\* target is the caller never change the accounts and answer 403, except that
\* PUT answers 400 when the role of the body is not admin, manager or user; a
\* well-formed target id that names no account never changes the accounts and
\* answers 404, with the same exception; a malformed id answers 500 (400 for
\* PUT with an invalid role) and changes nothing.
C8_SelfAndMissing ==
    [][(res'.op \in SelfOrMissingOps /\ res'.ran /\ users[res'.tok.uid].role = "admin") =>
        /\ res'.target = res'.tok.uid =>
               /\ users' = users
               /\ res'.status = IF res'.valid THEN 403 ELSE 400
        /\ (res'.target \in UserIds /\ users[res'.target] = NoUser) =>
               /\ users' = users
               /\ res'.status = IF res'.valid THEN 404 ELSE 400
        /\ res'.target = BadId =>
               /\ users' = users
               /\ res'.status = IF res'.valid THEN 500 ELSE 400]_vars

\* C8 witness: an admin asked to delete their own account and got 403.
C8_Witness ==
    /\ res.op = "DELETE /users/:id"
    /\ res.user.role = "admin"
    /\ res.target = res.user.id
    /\ res.status = 403
    /\ users[res.target].role = "admin"

TaskMutations == {"PUT /tasks/:id", "DELETE /tasks/:id"}

\* Whether the caller of the response owns task t (assignee or creator).
OwnTask(user, t) == tasks[t].assignedTo = user.id \/ tasks[t].createdBy = user.id

\* C3: a caller who is neither admin nor manager reads, through GET /tasks with
\* any filters and through GET /tasks/:id, only tasks assigned to or created by
\* them, and GET /tasks/:id answers 403 for every other task; admins and
\* managers read every task (GET /tasks/:id answers 200 for each, and GET /tasks
\* without filters lists them all).
C3_ReadOwnTasksOnly ==
    LET privileged == res.user.role \in {"admin", "manager"}
    IN  /\ (res.op = "GET /tasks" /\ res.ran) =>
               /\ res.status = 200
               /\ res.out \subseteq ExistingTasks
               /\ ~privileged => \A t \in res.out : OwnTask(res.user, t)
        /\ (res.op = "GET /tasks/:id" /\ res.ran /\ res.target \in ExistingTasks) =>
               IF ~privileged /\ ~OwnTask(res.user, res.target)
               THEN res.status = 403 /\ res.out = {}
               ELSE res.status = 200 /\ res.out = {res.target}
        /\ \A u \in ExistingUsers :
               users[u].role \in {"admin", "manager"} =>
                   {t \in ExistingTasks :
                       ListQueryMatches([id |-> u, role |-> users[u].role], NoQuery, t)}
                       = ExistingTasks

\* C3 witness: a regular user listed tasks and got some, but not all of them.
C3_Witness ==
    /\ res.op = "GET /tasks"
    /\ res.user.role = "user"
    /\ res.out # {}
    /\ res.out # ExistingTasks
    /\ \E t \in ExistingTasks : ~OwnTask(res.user, t)

\* C4 (as claimed): PUT /tasks/:id changes a task only for its creator, an admin
\* or a manager, and DELETE /tasks/:id removes it only for its creator or an
\* admin; every other caller gets 403, the task stays as it was and no
\* notification is created.
C4_TaskMutationsAsClaimed ==
    [][(res'.op \in TaskMutations /\ res'.ran /\ res'.target \in ExistingTasks) =>
        LET caller == res'.user
            task == tasks[res'.target]
            allowed ==
                \/ task.createdBy = caller.id
                \/ caller.role = "admin"
                \/ res'.op = "PUT /tasks/:id" /\ caller.role = "manager"
        IN  /\ (tasks' # tasks) => allowed
            /\ ~allowed => /\ res'.status = 403
                           /\ tasks' = tasks
                           /\ notifications' = notifications]_vars

\* C4 (amended): as claimed, except that a PUT whose body fails validation is
\* answered 400 before the role check: every other caller gets 403, or 400 from
\* a PUT with an invalid body; in both cases the task stays as it was and no
\* notification is created.
C4_TaskMutations ==
    [][(res'.op \in TaskMutations /\ res'.ran /\ res'.target \in ExistingTasks) =>
        LET caller == res'.user
            task == tasks[res'.target]
            allowed ==
                \/ task.createdBy = caller.id
                \/ caller.role = "admin"
                \/ res'.op = "PUT /tasks/:id" /\ caller.role = "manager"
        IN  /\ (tasks' # tasks) => allowed
            /\ ~allowed => /\ res'.status = IF res'.valid THEN 403 ELSE 400
                           /\ tasks' = tasks
                           /\ nextTaskId' = nextTaskId
                           /\ notifications' = notifications]_vars

\* C4 witness: a manager asked to delete a task somebody else created, got 403,
\* and the task is still there.
C4_Witness ==
    /\ res.op = "DELETE /tasks/:id"
    /\ res.user.role = "manager"
    /\ res.target \in ExistingTasks
    /\ tasks[res.target].createdBy # res.user.id
    /\ res.status = 403

\* C5 (as claimed): for a task the caller did not create, PUT /tasks/:id is
\* allowed exactly when the caller's role holds 'tasks:update-all' and
\* DELETE /tasks/:id exactly when it holds 'tasks:delete-all' (allowed: 200,
\* refused: 403).
C5_TaskDecisionsAreTableLookups ==
    [][(/\ res'.op \in TaskMutations
        /\ res'.ran
        /\ res'.target \in ExistingTasks
        /\ tasks[res'.target].createdBy # res'.user.id
        /\ res'.status \in {200, 403}) =>
        (res'.status = 200 <=>
            hasPermission(res'.user,
                          IF res'.op = "PUT /tasks/:id" THEN "tasks:update-all"
                          ELSE "tasks:delete-all"))]_vars

\* The instances that exist after the step and did not before it.
NewInstances == {c \in TaskIds : tasks[c] = NoTask /\ tasks'[c] # NoTask
                                  /\ tasks'[c].parentTaskId # NoId}

C10_ParentChildLinkage ==
    \A c \in ExistingTasks :
        tasks[c].parentTaskId # NoId =>
            /\ tasks[c].parentTaskId \in ExistingTasks
            /\ tasks[tasks[c].parentTaskId].isRecurring

\* C11 (as claimed): whenever a notification is created for a user who has at
\* least one live authenticated socket, connectedUsers holds an entry for that
\* user and the 'notification' event is emitted to a live socket of theirs,
\* however connections and disconnects interleaved before.
C11_OnlineUserIsNotified ==
    [][\A i \in (Len(notifications) + 1)..Len(notifications') :
          LET u == notifications'[i].user
          IN  LiveSocketsOf(u) # {} =>
                /\ connectedUsers[u] # NoSocket
                /\ \E e \in emitted' :
                      e.notification = i /\ e.user = u /\ e.socket \in LiveSocketsOf(u)]_vars

FigureCounts(f, t, today) ==
    CASE f = "overdue" -> tasks[t].dueDate < today /\ tasks[t].status # "completed"
      [] f = "dueToday" -> tasks[t].dueDate = today
      [] f = "dueThisWeek" -> tasks[t].dueDate >= today /\ tasks[t].dueDate <= today + 6
      [] OTHER -> TRUE

StatsFigureNames == {"status", "priority", "overdue", "dueToday", "dueThisWeek"}

\* C13: for a caller who is neither admin nor manager every figure of
\* GET /tasks/stats counts exactly the tasks assigned to or created by the
\* caller that the figure is about; for an admin or manager every figure counts
\* all tasks it is about.
C13_StatsAreRoleScoped ==
    (res.op = "GET /tasks/stats" /\ res.status = 200) =>
        \E today \in StatsDays :
            \A f \in StatsFigureNames, t \in ExistingTasks :
                <<f, t>> \in res.out <=>
                    /\ FigureCounts(f, t, today)
                    /\ res.user.role \in {"admin", "manager"} \/ OwnTask(res.user, t)

\* C13 witness: a regular user got statistics that count a task of theirs
\* while another user's task exists and is counted in none of the figures.
C13_Witness ==
    /\ res.op = "GET /tasks/stats"
    /\ res.status = 200
    /\ res.user.role = "user"
    /\ \E t \in ExistingTasks : <<"overdue", t>> \in res.out
    /\ \E t \in ExistingTasks :
          ~OwnTask(res.user, t) /\ \A f \in StatsFigureNames : <<f, t>> \notin res.out

\* C14: POST /auth/register with valid input and an email no account uses
\* creates exactly one account, with the requested role or 'user' when none is
\* given, and returns a token for that account; with an email an account
\* already uses it answers 400 and creates no account.
C14_RegisterCreatesOneAccount ==
    [][\A body \in AccountBodies :
          (/\ Idle
           /\ Register(body)
           /\ body.valid
           /\ body.role \in Roles \cup {Undefined})
          => IF \E u \in UserIds : users[u] # NoUser /\ users[u].email = body.email
             THEN res'.status = 400 /\ users' = users
             ELSE \E u \in UserIds :
                    /\ users[u] = NoUser
                    /\ users' = [users EXCEPT ![u] =
                                    [role |-> IF body.role = Undefined THEN "user"
                                              ELSE body.role,
                                     email |-> body.email]]
                    /\ res'.status = 201
                    /\ res'.tok = TokenOf(u)]_vars

\* C14 witness: a registration with a role created the account it answers
\* for, next to an account that existed before.
C14_Witness ==
    /\ res.op = "POST /auth/register"
    /\ res.status = 201
    /\ res.tok = TokenOf(res.target)
    /\ users[res.target].role = "manager"
    /\ \E u \in ExistingUsers : u # res.target

\* C15: each failed attempt of connectWithRetry schedules exactly one further
\* attempt, no attempt is scheduled after a success, at most one retry is
\* pending at any time, and if the database accepts connections from some point
\* on the server eventually reaches the connected state.
C15_RetryOnConnect ==
    /\ [](/\ connection.timers \in {0, 1}
          /\ connection.timers = 1 <=> connection.state = "waiting"
          /\ connection.attempts < MaxAttempts =>
                /\ connection.scheduled = connection.failures
                /\ connection.attempts = 1 + connection.scheduled - connection.timers)
    /\ [][/\ (connection.state = "connecting" /\ connection'.state = "waiting") =>
                /\ connection.timers = 0
                /\ connection'.timers = 1
          /\ connection.state = "connected" =>
                /\ connection'.state = "connected"
                /\ connection'.timers = 0
                /\ connection'.attempts = connection.attempts
                /\ connection'.scheduled = connection.scheduled]_vars
    /\ (<>[](connection.up)) => <>(connection.state = "connected")

\* C15 witness: the connection was established by a retry, after attempts
\* that failed.
C15_Witness ==
    /\ connection.state = "connected"
    /\ connection.failures >= 2
    /\ connection.scheduled = connection.failures
    /\ connection.attempts = connection.failures + 1

\* C16 (as claimed): PUT /tasks/:id deletes the instances of the updated task,
\* and generates a new one in their place, only when the request changes the
\* task's stored isRecurring value or its recurringType; an update that leaves
\* both as they were, also by not mentioning them, deletes no task.
C16_RescheduleOnlyOnChange ==
    [][(/\ res'.op = "PUT /tasks/:id"
        /\ \E c \in TaskIds : tasks[c] # NoTask /\ tasks'[c] = NoTask)
       => LET t == res'.target
          IN  \/ tasks[t].isRecurring # tasks'[t].isRecurring
              \/ tasks[t].recurringType # tasks'[t].recurringType]_vars

\* C17 (as claimed): a PUT /tasks/:id creates the next instance of a recurring
\* task only in a step that takes the stored status from a non-completed value
\* to 'completed' (or that changes the stored recurring settings, which
\* re-schedules); of two overlapping requests that complete the same task only
\* one creates an instance.
C17_NextInstanceOncePerCompletion ==
    [][(res'.op = "PUT /tasks/:id" /\ res'.status = 200 /\ NewInstances # {})
       => LET t == res'.target
          IN  \/ tasks[t].status # "completed" /\ tasks'[t].status = "completed"
              \/ tasks[t].isRecurring # tasks'[t].isRecurring
              \/ tasks[t].recurringType # tasks'[t].recurringType]_vars

NotifOps ==
    {"GET /notifications", "PUT /notifications/:id/read",
     "PUT /notifications/read-all", "DELETE /notifications/:id"}

====
